---- MODULE Spec2Model ----
(***************************************************************************)
(* The VNC console relay of vm_manager.py as served on /vnc_ws/:           *)
(* Handler.route -> Handler.handle_vnc_websocket_FIXED, its two pump       *)
(* threads proxy_ws_to_vnc and proxy_vnc_to_ws, the shared stop_event, and *)
(* the ThreadingHTTPServer request thread that runs the handler.           *)
(*                                                                         *)
(* Bytes are naturals 0..255.  A socket is modelled by the bytes buffered  *)
(* the peer has sent and recv() has not yet returned, and the state of its *)
(* peer.  recv(n) blocks while nothing has arrived, returns the first      *)
(* min(n, arrived) bytes, and the empty string at end of stream; how many  *)
(* of the sent bytes have arrived when recv is called is the network's     *)
(* choice, so recv(n) returns any non-empty prefix of at most n bytes.     *)
(***************************************************************************)
EXTENDS Naturals, Sequences, FiniteSets, TLC

\* ---------------------------------------------------------------- bounds
\* how many frames the browser sends in one session
MaxFrames == 1
\* how many chunks the VNC server sends in one session
MaxChunks == 2

\* ------------------------------------------------------------ pure helpers
Min(a, b) == IF a < b THEN a ELSE b

Take(s, n) == SubSeq(s, 1, Min(n, Len(s)))

Drop(s, n) == SubSeq(s, Min(n, Len(s)) + 1, Len(s))

RECURSIVE XorBits(_, _, _)
XorBits(a, b, n) ==
    IF n = 0 THEN 0
    ELSE (((a % 2) + (b % 2)) % 2) + 2 * XorBits(a \div 2, b \div 2, n - 1)

\* Python's a ^ b on two bytes
Xor(a, b) == XorBits(a, b, 8)

RECURSIVE BigEndian(_)
\* struct.unpack('!H' / '!Q', b)[0]
BigEndian(b) ==
    IF b = << >> THEN 0
    ELSE 256 * BigEndian(SubSeq(b, 1, Len(b) - 1)) + b[Len(b)]

RECURSIVE ToBytes(_, _)
\* struct.pack('!H' / '!Q', v): v as n big-endian bytes
ToBytes(v, n) ==
    IF n = 0 THEN << >> ELSE Append(ToBytes(v \div 256, n - 1), (v % 256))

\* the unmasking with the key index off by one: mask[(i + 1) % 4]
UnmaskShifted(payload, mask) ==
    [i \in 1..Len(payload) |-> Xor(payload[i], mask[(i % 4) + 1])]

\* bytes([payload[i] ^ mask[i % 4] for i in range(len(payload))])
Unmask(payload, mask) ==
    [i \in 1..Len(payload) |-> Xor(payload[i], mask[((i - 1) % 4) + 1])]

\* the inline encoder with `length <= 126` for `length <= 125`
EncodeInlineOffByOne(data) ==
    LET length == Len(data)
        header == IF length <= 126 THEN <<130, length>>
                  ELSE IF length <= 65535 THEN <<130, 126>> \o ToBytes(length, 2)
                  ELSE <<130, 127>> \o ToBytes(length, 8)
    IN  header \o data

\* proxy_vnc_to_ws: header = bytearray([0x82]) ... header + data
EncodeInline(data) ==
    LET length == Len(data)
        header == IF length <= 125 THEN <<130, length>>
                  ELSE IF length <= 65535 THEN <<130, 126>> \o ToBytes(length, 2)
                  ELSE <<130, 127>> \o ToBytes(length, 8)
    IN  header \o data

\* ------------------------------------------------- what the browser sends
\* A client frame as the browser builds it (RFC 6455): FIN=1, the opcode,
\* the MASK bit, the length in the 7-bit, 16-bit or 64-bit form, the mask
\* key when masked, and the payload XORed with the key when masked.
ScenarioKey == <<170, 187, 204, 221>>

ZeroKey == <<0, 0, 0, 0>>

ClientFrames ==
    { [opcode |-> 2, masked |-> TRUE,  fmt |-> 7,  key |-> ScenarioKey, payload |-> <<1, 2, 3>>],
      [opcode |-> 1, masked |-> TRUE,  fmt |-> 16, key |-> ZeroKey,     payload |-> <<4>>],
      [opcode |-> 2, masked |-> FALSE, fmt |-> 7,  key |-> << >>,       payload |-> <<5, 6>>],
      [opcode |-> 9, masked |-> TRUE,  fmt |-> 7,  key |-> ScenarioKey, payload |-> <<7>>],
      [opcode |-> 3, masked |-> TRUE,  fmt |-> 7,  key |-> ZeroKey,     payload |-> <<8>>],
      [opcode |-> 8, masked |-> TRUE,  fmt |-> 7,  key |-> ZeroKey,     payload |-> << >>] }

\* RFC 6455 5.3, as the browser applies it: octet i of the payload XOR octet
\* i mod 4 of the key
MaskWith(payload, key) ==
    [i \in 1..Len(payload) |-> Xor(key[((i - 1) % 4) + 1], payload[i])]

ClientEncode(f) ==
    LET n    == Len(f.payload)
        mbit == IF f.masked THEN 128 ELSE 0
        len  == IF f.fmt = 7 THEN <<mbit + n>>
                ELSE IF f.fmt = 16 THEN <<mbit + 126>> \o ToBytes(n, 2)
                ELSE <<mbit + 127>> \o ToBytes(n, 8)
        body == IF f.masked THEN f.key \o MaskWith(f.payload, f.key) ELSE f.payload
    IN  <<128 + f.opcode>> \o len \o body

\* what the VNC server sends in its i-th write (the relay does not look at
\* the bytes; it is enough that they differ from write to write)
BackendChunk(i) == <<10 + i>>

\* ------------------------------------------------------------------ state
VARIABLES
    pcM,         \* the request thread: where handle_vnc_websocket_FIXED is
    pc1,         \* proxy_ws_to_vnc
    pc2,         \* proxy_vnc_to_ws
    stop_event,  \* threading.Event: is_set()
    connection,  \* self.connection: "sock" or "None"
    vnc_socket,  \* the handler's local: "None", "created" or "connected"
    http,        \* status lines written to the client before the relay
    l1,          \* proxy_ws_to_vnc's locals
    data,        \* proxy_vnc_to_ws's local
    cliSent,     \* frames the browser has sent, in order
    wsIn,        \* their bytes that ws_socket.recv has not yet returned
    cliState,    \* the browser's end: "open", "eof" (closed) or "reset"
    vncIn,       \* bytes buffered in vnc_socket for recv
    vncState,    \* the VNC server's end: "open", "eof" or "reset"
    vncChunks,   \* how many chunks the VNC server has sent
    vncOut,      \* bytes written to vnc_socket so far
    wsOut,       \* bytes written to ws_socket by the relay so far
    reads,       \* the non-empty results of vnc_socket.recv, in order
    vncCloses,   \* calls of vnc_socket.close()
    wsCloses,    \* times the client connection was closed
    reqKey,      \* the request's Sec-WebSocket-Key: "None", "" or "key"
    reqUpgrade,  \* the request has "Connection: ... upgrade" and "Upgrade: websocket"
    lookup,      \* what the libvirt lookup of the domain gave
    connects     \* calls of connect() on a socket to the VNC server

\* the frame helpers, applied to one payload
VARIABLES
    cPayload,    \* the payload given to the helpers
    cMask,       \* the 4-byte mask key of the client frame
    cStage,      \* which helper ran last
    cFrame,      \* the bytes the encoder (or the client's masking) produced
    cResult      \* what the decoder (or the unmasking) returned

\* check_auth, for requests served concurrently
VARIABLES
    AUTH_PASSWORD, \* a password is configured
    SESSIONS,      \* session id -> expiry time
    now,           \* time.time(), in periods of 86400 s
    created,       \* how many sessions create_session has made
    aPc,           \* per request thread: where check_auth is
    aCookie,       \* per request thread: the vm_session cookie, 0 for none
    aSession,      \* per request thread: session['expires'] as fetched
    foundExpired   \* the sessions some check has found expired

\* start_image_ingest, for imports running concurrently to one destination
VARIABLES
    PROGRESS,    \* pid -> [status, pct]
    wPc,         \* per import: where its worker thread is
    clPc,        \* per import: where its cleanup_progress thread is
    dest_file,   \* os.path.exists(dest_file)
    lock_file,   \* the pid written in dest_file + '.lock', 0 when there is no lock file
    writers      \* the imports whose run_convert is writing dest_file

\* handle_vnc_websocket_FIXED, for requests served concurrently; sockets and events
\* are objects, and a local variable holds the identity of one (0 for None)
VARIABLES
    hPc,         \* per request: where its handler thread is
    hT1,         \* per request: its proxy_ws_to_vnc thread
    hT2,         \* per request: its proxy_vnc_to_ws thread
    hRequest,    \* per request: the socket accept() returned, ws_socket
    hConn,       \* per request: self.connection
    hSock,       \* per request: vnc_socket
    hEvent,      \* per request: stop_event
    hVm,         \* per request: the domain named in the path
    sockObjs,    \* the socket objects created so far: state, and bytes written to it
    eventObjs,   \* the Event objects created so far: is_set()
    serving,     \* serve_forever is running
    actor        \* the request whose thread made the last step, 0 for none

relayVars == <<pcM, pc1, pc2, stop_event, connection, vnc_socket, http, l1, data,
          reqKey, reqUpgrade, lookup, connects,
          cliSent, wsIn, cliState, vncIn, vncState, vncChunks,
          vncOut, wsOut, reads, vncCloses, wsCloses>>

codecVars == <<cPayload, cMask, cStage, cFrame, cResult>>

authVars == <<AUTH_PASSWORD, SESSIONS, now, created, aPc, aCookie, aSession, foundExpired>>

\* the variables the relay does not touch
ingestVars == <<PROGRESS, wPc, clPc, dest_file, lock_file, writers>>

sessionVars == <<hPc, hT1, hT2, hRequest, hConn, hSock, hEvent, hVm,
                 sockObjs, eventObjs, serving, actor>>

otherVars == <<codecVars, authVars, ingestVars, sessionVars>>

vars == <<relayVars, otherVars>>

\* the decoder's result: None, or a payload
None == [frame |-> FALSE, payload |-> << >>]

Some(payload) == [frame |-> TRUE, payload |-> payload]

\* no helper is being applied
CodecIdle ==
    /\ cPayload = << >>
    /\ cMask = << >>
    /\ cStage = "idle"
    /\ cFrame = << >>
    /\ cResult = None

\* request threads whose authentication is followed
AuthThreads == {1, 2}

\* no request is being authenticated
AuthIdle ==
    /\ AUTH_PASSWORD = FALSE
    /\ SESSIONS = << >>
    /\ now = 0
    /\ created = 0
    /\ aPc = [r \in AuthThreads |-> "idle"]
    /\ aCookie = [r \in AuthThreads |-> 0]
    /\ aSession = [r \in AuthThreads |-> 0]
    /\ foundExpired = {}

\* the imports followed; the pid of import w is w
Imports == {1, 2}

\* no import has been started
IngestIdle ==
    /\ PROGRESS = << >>
    /\ wPc = [w \in Imports |-> "idle"]
    /\ clPc = [w \in Imports |-> "idle"]
    /\ dest_file = FALSE
    /\ lock_file = 0
    /\ writers = {}

\* the requests followed
Viewers == {1, 2}

\* the domains with a VNC display
Domains == {"vm1", "vm2"}

\* the server is accepting and no request has come
SessionsIdle ==
    /\ hPc = [s \in Viewers |-> "idle"]
    /\ hT1 = [s \in Viewers |-> "none"]
    /\ hT2 = [s \in Viewers |-> "none"]
    /\ hRequest = [s \in Viewers |-> 0]
    /\ hConn = [s \in Viewers |-> 0]
    /\ hSock = [s \in Viewers |-> 0]
    /\ hEvent = [s \in Viewers |-> 0]
    /\ hVm = [s \in Viewers |-> "vm1"]
    /\ sockObjs = << >>
    /\ eventObjs = << >>
    /\ serving = TRUE
    /\ actor = 0

OthersIdle == CodecIdle /\ AuthIdle /\ IngestIdle /\ SessionsIdle

NoLocals == [opcode |-> 0, masked |-> FALSE, payload_len |-> 0,
             mask |-> << >>, payload |-> << >>]

\* Sec-WebSocket-Key as self.headers.get returns it
RequestKeys == {"None", "", "key"}

\* lv.get_domain raising, d.isActive() false, no <graphics type="vnc">,
\* port="-1", or a usable port
LookupResults == {"notfound", "inactive", "novnc", "port-1", "ok"}

Init ==
    /\ reqKey \in RequestKeys
    /\ reqUpgrade \in BOOLEAN
    /\ lookup = "none"
    /\ connects = 0
    /\ pcM = "lookup"
    /\ pc1 = "idle"
    /\ pc2 = "idle"
    /\ stop_event = FALSE
    /\ connection = "sock"
    /\ vnc_socket = "None"
    /\ http = << >>
    /\ l1 = NoLocals
    /\ data = << >>
    /\ cliSent = << >>
    /\ wsIn = << >>
    /\ cliState = "open"
    /\ vncIn = << >>
    /\ vncState = "open"
    /\ vncChunks = 0
    /\ vncOut = << >>
    /\ wsOut = << >>
    /\ reads = << >>
    /\ vncCloses = 0
    /\ wsCloses = 0
    /\ OthersIdle

\* no request for /vnc_ws/ has arrived
RelayIdle ==
    /\ reqKey = "key"
    /\ reqUpgrade = TRUE
    /\ lookup = "none"
    /\ connects = 0
    /\ pcM = "idle"
    /\ pc1 = "idle"
    /\ pc2 = "idle"
    /\ stop_event = FALSE
    /\ connection = "sock"
    /\ vnc_socket = "None"
    /\ http = << >>
    /\ l1 = NoLocals
    /\ data = << >>
    /\ cliSent = << >>
    /\ wsIn = << >>
    /\ cliState = "open"
    /\ vncIn = << >>
    /\ vncState = "open"
    /\ vncChunks = 0
    /\ vncOut = << >>
    /\ wsOut = << >>
    /\ reads = << >>
    /\ vncCloses = 0
    /\ wsCloses = 0

\* ------------------------------------------------------ groups of variables
mainVars == <<pcM, connection, vnc_socket, http, reqKey, reqUpgrade, lookup, connects,
              vncCloses, wsCloses>>

t1Vars == <<pc1, l1>>

t2Vars == <<pc2, data>>

clientVars == <<cliSent, wsIn, cliState>>

backendVars == <<vncIn, vncState, vncChunks>>

histVars == <<vncOut, wsOut, reads>>

\* --------------------------------- handle_vnc_websocket_FIXED, request thread
\* the except/finally of the handler: an exception anywhere in the try block
\* is logged and control goes to the finally block
Raise == pcM' = "finally"

\* the lookup without the test graphics.get('port') == '-1': port is int('-1')
LookupAnyPort ==
    /\ pcM = "lookup"
    /\ \E r \in LookupResults :
          /\ lookup' = r
          /\ IF r \in {"ok", "port-1"} THEN pcM' = "key" ELSE Raise
    /\ UNCHANGED <<connection, vnc_socket, http, reqKey, reqUpgrade, connects, vncCloses, wsCloses>>
    /\ UNCHANGED <<stop_event, t1Vars, t2Vars, clientVars, backendVars, histVars>>
    /\ UNCHANGED otherVars

\* d = lv.get_domain(...) ... port = int(graphics.get('port'))
Lookup ==
    /\ pcM = "lookup"
    /\ \E r \in LookupResults :
          /\ lookup' = r
          /\ IF r = "ok" THEN pcM' = "key" ELSE Raise
    /\ UNCHANGED <<connection, vnc_socket, http, reqKey, reqUpgrade, connects, vncCloses, wsCloses>>
    /\ UNCHANGED <<stop_event, t1Vars, t2Vars, clientVars, backendVars, histVars>>
    /\ UNCHANGED otherVars

\* key = self.headers.get('Sec-WebSocket-Key'); if not key: raise
CheckKey ==
    /\ pcM = "key"
    /\ IF reqKey \in {"None", ""} THEN Raise ELSE pcM' = "send101"
    /\ UNCHANGED <<connection, vnc_socket, http, reqKey, reqUpgrade, connects, lookup, vncCloses, wsCloses>>
    /\ UNCHANGED <<stop_event, t1Vars, t2Vars, clientVars, backendVars, histVars>>
    /\ UNCHANGED otherVars

\* self.send_response(101) ... self.end_headers()
Send101 ==
    /\ pcM = "send101"
    /\ http' = Append(http, 101)
    /\ pcM' = "connect"
    /\ UNCHANGED <<connection, vnc_socket, reqKey, reqUpgrade, connects, lookup, vncCloses, wsCloses>>
    /\ UNCHANGED <<stop_event, t1Vars, t2Vars, clientVars, backendVars, histVars>>
    /\ UNCHANGED otherVars

\* the connect as handle_vnc_websocket does it: a test connection to the
\* port first, closed again, then the connection the session uses
ConnectAfterProbe ==
    /\ pcM = "connect"
    /\ \/ /\ connects' = connects + 2
          /\ \/ vnc_socket' = "connected" /\ pcM' = "start"
             \/ vnc_socket' = "created" /\ Raise
       \/ /\ connects' = connects + 1
          /\ UNCHANGED vnc_socket
          /\ Raise
    /\ UNCHANGED <<connection, http, reqKey, reqUpgrade, lookup, vncCloses, wsCloses>>
    /\ UNCHANGED <<stop_event, t1Vars, t2Vars, clientVars, backendVars, histVars>>
    /\ UNCHANGED otherVars

\* vnc_socket = socket.socket(...); vnc_socket.connect((host, port))
Connect ==
    /\ pcM = "connect"
    /\ connects' = connects + 1
    /\ \/ vnc_socket' = "connected" /\ pcM' = "start"
       \/ vnc_socket' = "created" /\ Raise
    /\ UNCHANGED <<connection, http, reqKey, reqUpgrade, lookup, vncCloses, wsCloses>>
    /\ UNCHANGED <<stop_event, t1Vars, t2Vars, clientVars, backendVars, histVars>>
    /\ UNCHANGED otherVars

\* stop_event = threading.Event(); t1.start(); t2.start()
StartPumps ==
    /\ pcM = "start"
    /\ stop_event' = FALSE
    /\ pc1' = "top"
    /\ pc2' = "top"
    /\ pcM' = "wait"
    /\ UNCHANGED <<connection, vnc_socket, http, reqKey, reqUpgrade, connects, lookup, vncCloses, wsCloses>>
    /\ UNCHANGED <<l1, data, clientVars, backendVars, histVars>>
    /\ UNCHANGED otherVars

\* stop_event.wait()
WaitStop ==
    /\ pcM = "wait"
    /\ stop_event
    /\ pcM' = "finally"
    /\ UNCHANGED <<connection, vnc_socket, http, reqKey, reqUpgrade, connects, lookup, vncCloses, wsCloses>>
    /\ UNCHANGED <<stop_event, t1Vars, t2Vars, clientVars, backendVars, histVars>>
    /\ UNCHANGED otherVars

\* the finally block as _vnc_proxy_simple writes it: it closes the client
\* socket itself, and the server closes the connection again afterwards
FinallyClosing ==
    /\ pcM = "finally"
    /\ vncCloses' = IF vnc_socket # "None" THEN vncCloses + 1 ELSE vncCloses
    /\ wsCloses' = wsCloses + 1
    /\ pcM' = "returned"
    /\ UNCHANGED <<connection, vnc_socket, http, reqKey, reqUpgrade, connects, lookup>>
    /\ UNCHANGED <<stop_event, t1Vars, t2Vars, clientVars, backendVars, histVars>>
    /\ UNCHANGED otherVars

\* the finally block without vnc_socket.close(): the backend socket is
\* left to the garbage collector
FinallyLeaking ==
    /\ pcM = "finally"
    /\ connection' = "None"
    /\ pcM' = "returned"
    /\ UNCHANGED <<vnc_socket, http, reqKey, reqUpgrade, connects, lookup, vncCloses, wsCloses>>
    /\ UNCHANGED <<stop_event, t1Vars, t2Vars, clientVars, backendVars, histVars>>
    /\ UNCHANGED otherVars

\* finally: if vnc_socket: vnc_socket.close(); self.connection = None
Finally ==
    /\ pcM = "finally"
    /\ vncCloses' = IF vnc_socket # "None" THEN vncCloses + 1 ELSE vncCloses
    /\ connection' = "None"
    /\ pcM' = "returned"
    /\ UNCHANGED <<vnc_socket, http, reqKey, reqUpgrade, connects, lookup, wsCloses>>
    /\ UNCHANGED <<stop_event, t1Vars, t2Vars, clientVars, backendVars, histVars>>
    /\ UNCHANGED otherVars

\* Handler.finish: super().finish() only if self.connection is not None.
\* The finally block has set it to None by now, so nothing is done; were it
\* not None, StreamRequestHandler.finish would flush and close rfile and
\* wfile (with any exception swallowed), never the socket itself.  Either
\* way no variable of the model changes.
Finish ==
    /\ pcM = "returned"
    /\ pcM' = "finished"
    /\ UNCHANGED <<connection, vnc_socket, http, reqKey, reqUpgrade, connects, lookup, vncCloses, wsCloses>>
    /\ UNCHANGED <<stop_event, t1Vars, t2Vars, clientVars, backendVars, histVars>>
    /\ UNCHANGED otherVars

\* ThreadingHTTPServer: after the handler, process_request_thread calls
\* shutdown_request(request): request.shutdown(SHUT_WR); request.close()
ShutdownRequest ==
    /\ pcM = "finished"
    /\ wsCloses' = wsCloses + 1
    /\ pcM' = "closed"
    /\ UNCHANGED <<connection, vnc_socket, http, reqKey, reqUpgrade, connects, lookup, vncCloses>>
    /\ UNCHANGED <<stop_event, t1Vars, t2Vars, clientVars, backendVars, histVars>>
    /\ UNCHANGED otherVars

\* ------------------------------------------------------------ socket reads
\* what ws_socket.recv(n) can return: a non-empty prefix of what the
\* browser sent, of at most n bytes, or b'' once the browser has closed and
\* everything it sent has been read (recv(0) returns b'' at once)
WsRecv(n) ==
    IF n = 0 THEN {<< >>}
    ELSE IF wsIn # << >> THEN {Take(wsIn, k) : k \in 1..Min(n, Len(wsIn))}
    ELSE IF cliState = "eof" THEN {<< >>}
    ELSE {}

\* the blocking calls of proxy_ws_to_vnc
T1Blocked == pc1 \in {"hdr", "ext2", "ext8", "mask", "payload"}

\* ------------------------------------------------------- proxy_ws_to_vnc
\* break (or the loop condition failing), then stop_event.set()
Break1 ==
    /\ stop_event' = TRUE
    /\ pc1' = "done"
    /\ l1' = NoLocals

\* an exception the except clause does not name (struct.error, IndexError)
\* ends the thread inside the loop: stop_event.set() is not reached
Die1 ==
    /\ pc1' = "dead"
    /\ l1' = NoLocals
    /\ UNCHANGED stop_event

\* where the parse goes after the length is known
AfterLength(masked) == IF masked THEN "mask" ELSE "payload"

\* while not stop_event.is_set(): ... enter ws_socket.recv(2)
T1Top ==
    /\ pc1 = "top"
    /\ IF stop_event THEN Break1 ELSE pc1' = "hdr" /\ UNCHANGED <<stop_event, l1>>
    /\ UNCHANGED <<mainVars, t2Vars, clientVars, backendVars, histVars>>
    /\ UNCHANGED otherVars

\* header = ws_socket.recv(2) ... payload_len = header[1] & 0x7F
T1Header ==
    /\ pc1 = "hdr"
    /\ \/ /\ cliState = "reset"
          /\ Break1
          /\ UNCHANGED wsIn
       \/ /\ cliState # "reset"
          /\ \E header \in WsRecv(2) :
                /\ wsIn' = Drop(wsIn, Len(header))
                /\ IF Len(header) < 2 THEN Break1
                   ELSE IF header[1] % 16 = 8 THEN Break1
                   ELSE LET masked == header[2] >= 128
                            payload_len == header[2] % 128
                        IN  /\ l1' = [opcode |-> header[1] % 16, masked |-> masked,
                                      payload_len |-> payload_len,
                                      mask |-> << >>, payload |-> << >>]
                            /\ pc1' = IF payload_len = 126 THEN "ext2"
                                      ELSE IF payload_len = 127 THEN "ext8"
                                      ELSE AfterLength(masked)
                            /\ UNCHANGED stop_event
    /\ UNCHANGED <<mainVars, t2Vars, cliSent, cliState, backendVars, histVars>>
    /\ UNCHANGED otherVars

\* payload_len = struct.unpack('!H', ws_socket.recv(2))[0]   (or '!Q', 8)
T1Ext ==
    /\ pc1 \in {"ext2", "ext8"}
    /\ \/ /\ cliState = "reset"
          /\ Break1
          /\ UNCHANGED wsIn
       \/ /\ cliState # "reset"
          /\ LET n == IF pc1 = "ext2" THEN 2 ELSE 8 IN
             \E b \in WsRecv(n) :
                /\ wsIn' = Drop(wsIn, Len(b))
                /\ IF Len(b) # n THEN Die1
                   ELSE /\ l1' = [l1 EXCEPT !.payload_len = BigEndian(b)]
                        /\ pc1' = AfterLength(l1.masked)
                        /\ UNCHANGED stop_event
    /\ UNCHANGED <<mainVars, t2Vars, cliSent, cliState, backendVars, histVars>>
    /\ UNCHANGED otherVars

\* mask = ws_socket.recv(4) if masked else None
T1Mask ==
    /\ pc1 = "mask"
    /\ \/ /\ cliState = "reset"
          /\ Break1
          /\ UNCHANGED wsIn
       \/ /\ cliState # "reset"
          /\ \E mask \in WsRecv(4) :
                /\ l1' = [l1 EXCEPT !.mask = mask]
                /\ wsIn' = Drop(wsIn, Len(mask))
          /\ pc1' = "payload"
          /\ UNCHANGED stop_event
    /\ UNCHANGED <<mainVars, t2Vars, cliSent, cliState, backendVars, histVars>>
    /\ UNCHANGED otherVars

\* [payload[i] ^ mask[i % 4] for i in range(payload_len)] raises IndexError
UnmaskRaises(payload, mask, payload_len) ==
    \/ Len(payload) < payload_len
    \/ Len(mask) < 4 /\ payload_len > Len(mask)

\* payload = ws_socket.recv(payload_len); if masked and mask: payload = ...
T1Payload ==
    /\ pc1 = "payload"
    /\ \/ /\ cliState = "reset"
          /\ Break1
          /\ UNCHANGED wsIn
       \/ /\ cliState # "reset"
          /\ \E payload \in WsRecv(l1.payload_len) :
                /\ wsIn' = Drop(wsIn, Len(payload))
                /\ IF l1.masked /\ l1.mask # << >>
                   THEN IF UnmaskRaises(payload, l1.mask, l1.payload_len) THEN Die1
                        ELSE /\ l1' = [l1 EXCEPT !.payload = Unmask(payload, l1.mask)]
                             /\ pc1' = "send"
                             /\ UNCHANGED stop_event
                   ELSE /\ l1' = [l1 EXCEPT !.payload = payload]
                        /\ pc1' = "send"
                        /\ UNCHANGED stop_event
    /\ UNCHANGED <<mainVars, t2Vars, cliSent, cliState, backendVars, histVars>>
    /\ UNCHANGED otherVars

\* vnc_socket.sendall(payload)
T1Send ==
    /\ pc1 = "send"
    /\ \/ /\ vncCloses = 0
          /\ vncState # "reset"
          /\ vncOut' = vncOut \o l1.payload
          /\ pc1' = "top"
          /\ l1' = NoLocals
          /\ UNCHANGED stop_event
       \/ /\ vncCloses > 0 \/ vncState # "open"
          /\ \E k \in 0..(IF l1.payload = << >> THEN 0 ELSE Len(l1.payload) - 1) :
                vncOut' = vncOut \o Take(l1.payload, k)
          /\ Break1
    /\ UNCHANGED <<mainVars, t2Vars, clientVars, backendVars, wsOut, reads>>
    /\ UNCHANGED otherVars

\* a recv that was blocked when the server closed the connection: the
\* platform may fail it with OSError or leave it blocked
T1Interrupted ==
    /\ T1Blocked
    /\ wsCloses > 0
    /\ Break1
    /\ UNCHANGED <<mainVars, t2Vars, clientVars, backendVars, histVars>>
    /\ UNCHANGED otherVars

\* ------------------------------------------------------- proxy_vnc_to_ws
\* break (or the loop condition failing), then stop_event.set()
Break2 ==
    /\ stop_event' = TRUE
    /\ pc2' = "done"
    /\ data' = << >>

\* while not stop_event.is_set(): ... enter vnc_socket.recv(8192)
T2Top ==
    /\ pc2 = "top"
    /\ IF stop_event THEN Break2 ELSE pc2' = "recv" /\ UNCHANGED <<stop_event, data>>
    /\ UNCHANGED <<mainVars, t1Vars, clientVars, backendVars, histVars>>
    /\ UNCHANGED otherVars

\* data = vnc_socket.recv(8192); if not data: break
T2Recv ==
    /\ pc2 = "recv"
    /\ \/ /\ vncState = "reset"
          /\ Break2
          /\ UNCHANGED <<vncIn, reads>>
       \/ /\ vncState # "reset"
          /\ vncIn # << >>
          /\ data' = Take(vncIn, 8192)
          /\ vncIn' = Drop(vncIn, 8192)
          /\ reads' = Append(reads, Take(vncIn, 8192))
          /\ pc2' = "send"
          /\ UNCHANGED stop_event
       \/ /\ vncState = "eof"
          /\ vncIn = << >>
          /\ Break2
          /\ UNCHANGED <<vncIn, reads>>
    /\ UNCHANGED <<mainVars, t1Vars, clientVars, vncState, vncChunks, vncOut, wsOut>>
    /\ UNCHANGED otherVars

\* the send with the failed write answered by `continue` instead of `break`
T2SendContinue ==
    /\ pc2 = "send"
    /\ \/ /\ wsCloses = 0
          /\ cliState # "reset"
          /\ wsOut' = wsOut \o EncodeInline(data)
       \/ /\ wsCloses > 0 \/ cliState # "open"
          /\ \E k \in 0..(Len(EncodeInline(data)) - 1) :
                wsOut' = wsOut \o Take(EncodeInline(data), k)
    /\ pc2' = "top"
    /\ data' = << >>
    /\ UNCHANGED stop_event
    /\ UNCHANGED <<mainVars, t1Vars, clientVars, backendVars, vncOut, reads>>
    /\ UNCHANGED otherVars

\* ws_socket.sendall(header + data)
T2Send ==
    /\ pc2 = "send"
    /\ \/ /\ wsCloses = 0
          /\ cliState # "reset"
          /\ wsOut' = wsOut \o EncodeInline(data)
          /\ pc2' = "top"
          /\ data' = << >>
          /\ UNCHANGED stop_event
       \/ /\ wsCloses > 0 \/ cliState # "open"
          /\ \E k \in 0..(Len(EncodeInline(data)) - 1) :
                wsOut' = wsOut \o Take(EncodeInline(data), k)
          /\ Break2
    /\ UNCHANGED <<mainVars, t1Vars, clientVars, backendVars, vncOut, reads>>
    /\ UNCHANGED otherVars

\* a recv that was blocked when the handler closed vnc_socket: the platform
\* may fail it with OSError or leave it blocked
T2Interrupted ==
    /\ pc2 = "recv"
    /\ vncCloses > 0
    /\ Break2
    /\ UNCHANGED <<mainVars, t1Vars, clientVars, backendVars, histVars>>
    /\ UNCHANGED otherVars

\* ------------------------------------------------------------ the peers
\* the browser sends one more frame (what it sends after the pump that
\* reads it has ended is never read, and is left out; a client that did not
\* ask for the upgrade does not speak WebSocket)
ClientSend(f) ==
    /\ pc1 \notin {"idle", "done", "dead"}
    /\ reqUpgrade
    /\ cliState = "open"
    /\ Len(cliSent) < MaxFrames
    /\ cliSent' = Append(cliSent, f)
    /\ wsIn' = wsIn \o ClientEncode(f)
    /\ UNCHANGED cliState
    /\ UNCHANGED <<mainVars, stop_event, t1Vars, t2Vars, backendVars, histVars>>
    /\ UNCHANGED otherVars

\* the browser closes its end (FIN): the tab is closed
ClientClose ==
    /\ pc1 # "idle"
    /\ cliState = "open"
    /\ cliState' = "eof"
    /\ UNCHANGED <<cliSent, wsIn>>
    /\ UNCHANGED <<mainVars, stop_event, t1Vars, t2Vars, backendVars, histVars>>
    /\ UNCHANGED otherVars

\* the browser's connection is reset (RST)
ClientReset ==
    /\ pc1 # "idle"
    /\ cliState = "open"
    /\ cliState' = "reset"
    /\ UNCHANGED <<cliSent, wsIn>>
    /\ UNCHANGED <<mainVars, stop_event, t1Vars, t2Vars, backendVars, histVars>>
    /\ UNCHANGED otherVars

\* the VNC server writes one chunk (likewise while its reader runs)
BackendSend ==
    /\ pc2 \notin {"idle", "done"}
    /\ vncState = "open"
    /\ vncChunks < MaxChunks
    /\ vncIn' = vncIn \o BackendChunk(vncChunks + 1)
    /\ vncChunks' = vncChunks + 1
    /\ UNCHANGED vncState
    /\ UNCHANGED <<mainVars, stop_event, t1Vars, t2Vars, clientVars, histVars>>
    /\ UNCHANGED otherVars

\* the VNC server closes its end (the VM is shut down)
BackendClose ==
    /\ pc2 # "idle"
    /\ vncState = "open"
    /\ vncState' = "eof"
    /\ UNCHANGED <<vncIn, vncChunks>>
    /\ UNCHANGED <<mainVars, stop_event, t1Vars, t2Vars, clientVars, histVars>>
    /\ UNCHANGED otherVars

\* the VNC server's connection is reset
BackendReset ==
    /\ pc2 # "idle"
    /\ vncState = "open"
    /\ vncState' = "reset"
    /\ UNCHANGED <<vncIn, vncChunks>>
    /\ UNCHANGED <<mainVars, stop_event, t1Vars, t2Vars, clientVars, histVars>>
    /\ UNCHANGED otherVars

\* ------------------------------------------------------- specifications
Main == Lookup \/ CheckKey \/ Send101 \/ Connect \/ StartPumps \/ WaitStop
        \/ Finally \/ Finish \/ ShutdownRequest

Pump1 == T1Top \/ T1Header \/ T1Ext \/ T1Mask \/ T1Payload \/ T1Send

Pump2 == T2Top \/ T2Recv \/ T2Send

Peers == (\E f \in ClientFrames : ClientSend(f)) \/ ClientClose
         \/ ClientReset \/ BackendSend
         \/ BackendClose \/ BackendReset

Next == Main \/ Pump1 \/ Pump2 \/ T1Interrupted \/ T2Interrupted \/ Peers

Spec == Init /\ [][Next]_vars

\* Every thread that can take a step takes it.  The peers need not send or
\* close, and a recv blocked on a socket closed by another thread need not
\* fail.
FairSpec == Spec /\ WF_vars(Main) /\ WF_vars(Pump1) /\ WF_vars(Pump2)

\* ======================================================= the frame helpers
\* fill patterns of the payloads the helpers are tried on
MaxFill == 2

\* the payload lengths tried: empty, one byte, and both sides of the two
\* thresholds of the length encoding
CodecLengths == {0, 1, 125, 126, 127, 65535, 65536}

CodecPayloads ==
    { [i \in 1..n |-> (i * f + n) % 256] : n \in CodecLengths, f \in 1..MaxFill }

CodecMasks == {ZeroKey, ScenarioKey, <<255, 1, 128, 64>>}

\* _encode_websocket_frame_fixed with `data_len <= 126` for `data_len < 126`
EncodeFixedOffByOne(vnc_data) ==
    LET data_len == Len(vnc_data)
        length   == IF data_len <= 126 THEN <<data_len>>
                    ELSE IF data_len < 65536 THEN <<126>> \o ToBytes(data_len, 2)
                    ELSE <<127>> \o ToBytes(data_len, 8)
    IN  <<130>> \o length \o vnc_data

\* _encode_websocket_frame_fixed: frame = bytearray([0x82]) ... bytes(frame)
EncodeFixed(vnc_data) ==
    LET data_len == Len(vnc_data)
        length   == IF data_len < 126 THEN <<data_len>>
                    ELSE IF data_len < 65536 THEN <<126>> \o ToBytes(data_len, 2)
                    ELSE <<127>> \o ToBytes(data_len, 8)
    IN  <<130>> \o length \o vnc_data

\* _encode_websocket_frame: frame.append(0x82) ... bytes(frame)
EncodeFrame(vnc_data) ==
    LET data_length == Len(vnc_data)
        length      == IF data_length < 126 THEN <<data_length>>
                       ELSE IF data_length < 65536
                            THEN <<126>> \o ToBytes(data_length, 2)
                       ELSE <<127>> \o ToBytes(data_length, 8)
    IN  <<130>> \o length \o vnc_data

\* bytes(payload[i] ^ mask[i % 4] for i in range(len(payload)))
UnmaskFixed(payload, mask) ==
    [i \in 1..Len(payload) |-> Xor(payload[i], mask[((i - 1) % 4) + 1])]

\* _decode_websocket_frame_fixed: None, or the (unmasked) payload
DecodeFixed(bytes) ==
    IF Len(bytes) < 2 THEN None
    ELSE
    LET byte1       == bytes[1]
        byte2       == bytes[2]
        opcode      == byte1 % 16
        masked      == byte2 >= 128
        len7        == byte2 % 128
        ext         == IF len7 = 126 THEN 2 ELSE IF len7 = 127 THEN 8 ELSE 0
        payload_len == IF ext = 0 THEN len7 ELSE BigEndian(SubSeq(bytes, 3, 2 + ext))
        offset      == 2 + ext + (IF masked THEN 4 ELSE 0)
        mask        == IF masked THEN SubSeq(bytes, 3 + ext, 6 + ext) ELSE << >>
        payload     == SubSeq(bytes, offset + 1, offset + payload_len)
    IN  IF opcode = 8 THEN None
        ELSE IF opcode \notin {1, 2} THEN None
        ELSE IF Len(bytes) < 2 + ext THEN None
        ELSE IF masked /\ Len(bytes) < 2 + ext + 4 THEN None
        ELSE IF Len(bytes) < offset + payload_len THEN None
        ELSE IF mask # << >> THEN Some(UnmaskFixed(payload, mask))
        ELSE Some(payload)

\* the length form the browser uses for a payload of n bytes
FmtOf(n) == IF n < 126 THEN 7 ELSE IF n < 65536 THEN 16 ELSE 64

CodecInit ==
    /\ RelayIdle
    /\ AuthIdle
    /\ IngestIdle
    /\ SessionsIdle
    /\ cPayload \in CodecPayloads
    /\ cMask \in CodecMasks
    /\ cStage = "input"
    /\ cFrame = << >>
    /\ cResult = None

\* ws_frame = self._encode_websocket_frame_fixed(vnc_data)
ApplyEncodeFixed ==
    /\ cStage = "input"
    /\ cFrame' = EncodeFixed(cPayload)
    /\ cStage' = "encoded_fixed"
    /\ UNCHANGED <<cPayload, cMask, cResult, relayVars, authVars, ingestVars, sessionVars>>

\* ws_frame = self._encode_websocket_frame(vnc_data)
ApplyEncodeFrame ==
    /\ cStage = "input"
    /\ cFrame' = EncodeFrame(cPayload)
    /\ cStage' = "encoded_frame"
    /\ UNCHANGED <<cPayload, cMask, cResult, relayVars, authVars, ingestVars, sessionVars>>

\* the encoder written out in proxy_vnc_to_ws
ApplyEncodeInline ==
    /\ cStage = "input"
    /\ cFrame' = EncodeInline(cPayload)
    /\ cStage' = "encoded_inline"
    /\ UNCHANGED <<cPayload, cMask, cResult, relayVars, authVars, ingestVars, sessionVars>>

\* the browser builds a masked Binary frame around the payload
ApplyClientEncode ==
    /\ cStage = "input"
    /\ cFrame' = ClientEncode([opcode |-> 2, masked |-> TRUE,
                               fmt |-> FmtOf(Len(cPayload)), key |-> cMask,
                               payload |-> cPayload])
    /\ cStage' = "client_frame"
    /\ UNCHANGED <<cPayload, cMask, cResult, relayVars, authVars, ingestVars, sessionVars>>

\* the browser masks the bare payload
ApplyMask ==
    /\ cStage = "input"
    /\ cFrame' = MaskWith(cPayload, cMask)
    /\ cStage' = "masked"
    /\ UNCHANGED <<cPayload, cMask, cResult, relayVars, authVars, ingestVars, sessionVars>>

\* vnc_data = self._decode_websocket_frame_fixed(ws_data)
ApplyDecodeFixed ==
    /\ cStage \in {"encoded_fixed", "encoded_frame", "encoded_inline", "client_frame"}
    /\ cResult' = DecodeFixed(cFrame)
    /\ cStage' = IF cStage = "client_frame" THEN "decoded_client" ELSE "decoded"
    /\ UNCHANGED <<cPayload, cMask, cFrame, relayVars, authVars, ingestVars, sessionVars>>

\* proxy_ws_to_vnc unmasks the payload it has read
ApplyUnmask ==
    /\ cStage = "masked"
    /\ cResult' = Some(Unmask(cFrame, cMask))
    /\ cStage' = "unmasked"
    /\ UNCHANGED <<cPayload, cMask, cFrame, relayVars, authVars, ingestVars, sessionVars>>

CodecNext ==
    \/ ApplyEncodeFixed \/ ApplyEncodeFrame \/ ApplyEncodeInline
    \/ ApplyClientEncode \/ ApplyMask \/ ApplyDecodeFixed \/ ApplyUnmask

CodecSpec == CodecInit /\ [][CodecNext]_vars

\* ============================================================= check_auth
\* how far the clock runs, in periods of 86400 s
MaxClock == 3

\* how many sessions are created by logging in
MaxSessions == 2

\* create_session: 'expires': time.time() + 86400
ExpiresAfter(t) == t + 1

\* SESSIONS as a dict: the keys are 1..created less the deleted ones
HasSession(c) == c \in DOMAIN SESSIONS

AuthInit ==
    /\ RelayIdle
    /\ CodecIdle
    /\ IngestIdle
    /\ SessionsIdle
    /\ AUTH_PASSWORD \in BOOLEAN
    /\ SESSIONS = << >>
    /\ now = 0
    /\ created = 0
    /\ aPc = [r \in AuthThreads |-> "new"]
    /\ aCookie = [r \in AuthThreads |-> 0]
    /\ aSession = [r \in AuthThreads |-> 0]
    /\ foundExpired = {}

authFrame == <<relayVars, codecVars, ingestVars, sessionVars>>

\* time passes
Tick ==
    /\ now < MaxClock
    /\ now' = now + 1
    /\ UNCHANGED <<AUTH_PASSWORD, SESSIONS, created, aPc, aCookie, aSession, foundExpired>>
    /\ UNCHANGED authFrame

\* POST /login with the right password: session_id = create_session(); the
\* id is 32 random bytes hashed, one never made before
Login ==
    /\ AUTH_PASSWORD
    /\ created < MaxSessions
    /\ created' = created + 1
    /\ SESSIONS' = [c \in DOMAIN SESSIONS \cup {created + 1} |->
                       IF c = created + 1 THEN ExpiresAfter(now) ELSE SESSIONS[c]]
    /\ UNCHANGED <<AUTH_PASSWORD, now, aPc, aCookie, aSession, foundExpired>>
    /\ UNCHANGED authFrame

\* a GET for /vnc_ws/ arrives on thread r, with no vm_session cookie (0) or
\* with one naming some id
Arrive(r) ==
    /\ aPc[r] \in {"new", "accepted", "rejected", "raised"}
    /\ \E c \in 0..MaxSessions :
          aCookie' = [aCookie EXCEPT ![r] = c]
    /\ aPc' = [aPc EXCEPT ![r] = "check"]
    /\ aSession' = [aSession EXCEPT ![r] = 0]
    /\ UNCHANGED <<AUTH_PASSWORD, SESSIONS, now, created, foundExpired>>
    /\ UNCHANGED authFrame

\* if not AUTH_PASSWORD: return True ... session = SESSIONS.get(session_cookie);
\* if not session: return False
AuthLookup(r) ==
    /\ aPc[r] = "check"
    /\ IF ~AUTH_PASSWORD
       THEN aPc' = [aPc EXCEPT ![r] = "accepted"] /\ UNCHANGED aSession
       ELSE IF aCookie[r] = 0 \/ ~HasSession(aCookie[r])
       THEN aPc' = [aPc EXCEPT ![r] = "rejected"] /\ UNCHANGED aSession
       ELSE /\ aPc' = [aPc EXCEPT ![r] = "expiry"]
            /\ aSession' = [aSession EXCEPT ![r] = SESSIONS[aCookie[r]]]
    /\ UNCHANGED <<AUTH_PASSWORD, SESSIONS, now, created, aCookie, foundExpired>>
    /\ UNCHANGED authFrame

\* check_auth without the test of session['expires']
AuthExpiryIgnored(r) ==
    /\ aPc[r] = "expiry"
    /\ aPc' = [aPc EXCEPT ![r] = "accepted"]
    /\ UNCHANGED <<AUTH_PASSWORD, SESSIONS, now, created, aCookie, aSession, foundExpired>>
    /\ UNCHANGED authFrame

\* if time.time() > session['expires']: ... else return True
AuthExpiry(r) ==
    /\ aPc[r] = "expiry"
    /\ IF now > aSession[r]
       THEN /\ aPc' = [aPc EXCEPT ![r] = "del"]
            /\ foundExpired' = foundExpired \cup {aCookie[r]}
       ELSE /\ aPc' = [aPc EXCEPT ![r] = "accepted"]
            /\ UNCHANGED foundExpired
    /\ UNCHANGED <<AUTH_PASSWORD, SESSIONS, now, created, aCookie, aSession>>
    /\ UNCHANGED authFrame

\* del SESSIONS[session_cookie]; return False   (KeyError when another
\* thread has deleted it in between: the request ends with the exception)
AuthDelete(r) ==
    /\ aPc[r] = "del"
    /\ IF HasSession(aCookie[r])
       THEN /\ SESSIONS' = [c \in DOMAIN SESSIONS \ {aCookie[r]} |-> SESSIONS[c]]
            /\ aPc' = [aPc EXCEPT ![r] = "rejected"]
       ELSE /\ aPc' = [aPc EXCEPT ![r] = "raised"]
            /\ UNCHANGED SESSIONS
    /\ UNCHANGED <<AUTH_PASSWORD, now, created, aCookie, aSession, foundExpired>>
    /\ UNCHANGED authFrame

AuthNext ==
    \/ Tick
    \/ Login
    \/ \E r \in AuthThreads : Arrive(r) \/ AuthLookup(r) \/ AuthExpiry(r) \/ AuthDelete(r)

AuthSpec == AuthInit /\ [][AuthNext]_vars

\* ==================================================== start_image_ingest
\* PROGRESS[pid][key] = value
SetProgress(pid, key, value) ==
    PROGRESS' = [PROGRESS EXCEPT ![pid] = [PROGRESS[pid] EXCEPT ![key] = value]]

\* the values the polling loop computes: min(95, int(10 + ...))
PollPcts == {50, 95}

IngestInit ==
    /\ RelayIdle
    /\ CodecIdle
    /\ AuthIdle
    /\ SessionsIdle
    /\ PROGRESS = << >>
    /\ wPc = [w \in Imports |-> "idle"]
    /\ clPc = [w \in Imports |-> "idle"]
    /\ dest_file \in BOOLEAN
    /\ lock_file = 0
    /\ writers = {}

ingestFrame == <<relayVars, codecVars, authVars, sessionVars>>

\* the worker moves on, the files untouched
Goto(w, pc) ==
    /\ wPc' = [wPc EXCEPT ![w] = pc]
    /\ UNCHANGED <<clPc, dest_file, lock_file, writers>>
    /\ UNCHANGED ingestFrame

\* PROGRESS[pid] = {'status': 'starting', 'pct': 0, ...}; Thread(worker).start()
StartIngest(w) ==
    /\ wPc[w] = "idle"
    /\ PROGRESS' = [p \in DOMAIN PROGRESS \cup {w} |->
                       IF p = w THEN [status |-> "starting", pct |-> 0] ELSE PROGRESS[p]]
    /\ Goto(w, "setup")

\* lv = LV(); pool = lv.get_pool(pool_name) ... temp_dir = tempfile.mkdtemp(...)
\* (any of them may raise), then PROGRESS[pid]['status'] = 'running'
Setup(w) ==
    /\ wPc[w] = "setup"
    /\ \/ SetProgress(w, "status", "running") /\ Goto(w, "pct5")
       \/ UNCHANGED PROGRESS /\ Goto(w, "except")

\* PROGRESS[pid]['pct'] = 5
Pct5(w) ==
    /\ wPc[w] = "pct5"
    /\ SetProgress(w, "pct", 5)
    /\ Goto(w, "fetch")

\* the download, the NFS mount or the local path: local_path is set, or
\* an exception is raised
Fetch(w) ==
    /\ wPc[w] = "fetch"
    /\ UNCHANGED PROGRESS
    /\ Goto(w, "check_dest") \/ Goto(w, "except")

\* if os.path.exists(dest_file): raise RuntimeError('Output file already exists')
CheckDest(w) ==
    /\ wPc[w] = "check_dest"
    /\ UNCHANGED PROGRESS
    /\ IF dest_file THEN Goto(w, "except") ELSE Goto(w, "check_lock")

\* if os.path.exists(lock_file): raise RuntimeError('Another import ...')
CheckLock(w) ==
    /\ wPc[w] = "check_lock"
    /\ UNCHANGED PROGRESS
    /\ IF lock_file # 0 THEN Goto(w, "except") ELSE Goto(w, "create_lock")

\* with open(lock_file, 'w') as lf: lf.write(str(pid))
CreateLock(w) ==
    /\ wPc[w] = "create_lock"
    /\ lock_file' = w
    /\ wPc' = [wPc EXCEPT ![w] = "pct10"]
    /\ UNCHANGED <<PROGRESS, clPc, dest_file, writers>>
    /\ UNCHANGED ingestFrame

\* PROGRESS[pid]['pct'] = 10
Pct10(w) ==
    /\ wPc[w] = "pct10"
    /\ SetProgress(w, "pct", 10)
    /\ Goto(w, "thr_start")

\* thr = threading.Thread(target=run_convert); thr.start(): qemu-img convert
\* or cp begins to write dest_file
ConvertStart(w) ==
    /\ wPc[w] = "thr_start"
    /\ writers' = writers \cup {w}
    /\ dest_file' = TRUE
    /\ wPc' = [wPc EXCEPT ![w] = "converting"]
    /\ UNCHANGED <<PROGRESS, clPc, lock_file>>
    /\ UNCHANGED ingestFrame

\* while thr.is_alive(): ... PROGRESS[pid]['pct'] = pct
PollConvert(w) ==
    /\ wPc[w] = "converting"
    /\ \E pct \in PollPcts : SetProgress(w, "pct", pct)
    /\ Goto(w, "converting")

\* run_convert ends, with or without an error (an exception in that thread
\* does not reach the worker); thr.join()
ConvertEnd(w) ==
    /\ wPc[w] = "converting"
    /\ writers' = writers \ {w}
    /\ wPc' = [wPc EXCEPT ![w] = "unlock"]
    /\ UNCHANGED <<PROGRESS, clPc, dest_file, lock_file>>
    /\ UNCHANGED ingestFrame

\* finally: os.remove(lock_file)
Unlock(w) ==
    /\ wPc[w] = "unlock"
    /\ lock_file' = 0
    /\ \E pc \in {"pct96", "pct98"} : wPc' = [wPc EXCEPT ![w] = pc]
    /\ UNCHANGED <<PROGRESS, clPc, dest_file, writers>>
    /\ UNCHANGED ingestFrame

\* if nfs_mount_point ...: PROGRESS[pid]['pct'] = 96; umount
Pct96(w) ==
    /\ wPc[w] = "pct96"
    /\ SetProgress(w, "pct", 96)
    /\ Goto(w, "pct98")

\* PROGRESS[pid]['pct'] = 98
Pct98(w) ==
    /\ wPc[w] = "pct98"
    /\ SetProgress(w, "pct", 98)
    /\ Goto(w, "refresh")

\* pool.refresh(0), failing or not: PROGRESS[pid]['status'] = 'done'
StatusDone(w) ==
    /\ wPc[w] = "refresh"
    /\ SetProgress(w, "status", "done")
    /\ Goto(w, "pct100")

\* PROGRESS[pid]['pct'] = 100
Pct100(w) ==
    /\ wPc[w] = "pct100"
    /\ SetProgress(w, "pct", 100)
    /\ Goto(w, "finally")

\* except Exception as e: PROGRESS[pid]['status'] = 'error'
StatusError(w) ==
    /\ wPc[w] = "except"
    /\ SetProgress(w, "status", "error")
    /\ Goto(w, "finally")

\* finally: shutil.rmtree(temp_dir); Thread(cleanup_progress).start()
WorkerFinally(w) ==
    /\ wPc[w] = "finally"
    /\ wPc' = [wPc EXCEPT ![w] = "exited"]
    /\ clPc' = [clPc EXCEPT ![w] = "sleep"]
    /\ UNCHANGED <<PROGRESS, dest_file, lock_file, writers>>
    /\ UNCHANGED ingestFrame

\* time.sleep(3); if pid in PROGRESS: del PROGRESS[pid]
CleanupProgress(w) ==
    /\ clPc[w] = "sleep"
    /\ PROGRESS' = [p \in DOMAIN PROGRESS \ {w} |-> PROGRESS[p]]
    /\ clPc' = [clPc EXCEPT ![w] = "done"]
    /\ UNCHANGED <<wPc, dest_file, lock_file, writers>>
    /\ UNCHANGED ingestFrame

Worker(w) ==
    \/ StartIngest(w) \/ Setup(w) \/ Pct5(w) \/ Fetch(w) \/ CheckDest(w)
    \/ CheckLock(w) \/ CreateLock(w) \/ Pct10(w) \/ ConvertStart(w)
    \/ PollConvert(w) \/ ConvertEnd(w) \/ Unlock(w) \/ Pct96(w) \/ Pct98(w)
    \/ StatusDone(w) \/ Pct100(w) \/ StatusError(w) \/ WorkerFinally(w)

IngestNext == \E w \in Imports : Worker(w) \/ CleanupProgress(w)

IngestSpec == IngestInit /\ [][IngestNext]_vars

\* ================================================== concurrent sessions
\* handle_vnc_websocket_FIXED run by several request threads at once.  Every
\* socket.socket(), accept() and threading.Event() call makes a new object;
\* the handler's locals hold the identity of the object.
SessionsInit ==
    /\ RelayIdle
    /\ CodecIdle
    /\ AuthIdle
    /\ IngestIdle
    /\ SessionsIdle

sessionFrame == <<relayVars, codecVars, authVars, ingestVars>>

\* a newly made socket object
NewSocket(state) == [state |-> state, written |-> 0]

\* the code at hPc[s] is run by the thread of request s
At(s, pc) == serving /\ hPc[s] = pc

\* the handler thread of request s goes on to pc
HandlerTo(s, pc) == hPc' = [hPc EXCEPT ![s] = pc] /\ actor' = s

\* ThreadingHTTPServer: accept() returns a new socket, the request gets a
\* thread of its own, and route() calls the handler with the domain of the path
Accepted(s) ==
    /\ At(s, "idle")
    /\ \E d \in Domains : hVm' = [hVm EXCEPT ![s] = d]
    /\ sockObjs' = Append(sockObjs, NewSocket("connected"))
    /\ hRequest' = [hRequest EXCEPT ![s] = Len(sockObjs) + 1]
    /\ hConn' = [hConn EXCEPT ![s] = Len(sockObjs) + 1]
    /\ HandlerTo(s, "lookup")
    /\ UNCHANGED <<hT1, hT2, hSock, hEvent, eventObjs, serving, sessionFrame>>

\* vnc_socket = None ... self.end_headers(): the lookup and the handshake
\* end with the 101 sent, or some step of them raises
Upgraded(s) ==
    /\ At(s, "lookup")
    /\ \E ok \in BOOLEAN : HandlerTo(s, IF ok THEN "connect" ELSE "finally")
    /\ UNCHANGED <<hT1, hT2, hRequest, hConn, hSock, hEvent, hVm,
                   sockObjs, eventObjs, serving, sessionFrame>>

\* a pooled backend connection: the socket of another request to the same domain
BackendPooled(s) ==
    /\ At(s, "connect")
    /\ \E ok \in BOOLEAN :
          LET pool == {t \in Viewers : /\ t # s
                                       /\ hSock[t] # 0
                                       /\ hVm[t] = hVm[s]
                                       /\ sockObjs[hSock[t]].state = "connected"}
          IN  IF ok /\ pool # {}
              THEN /\ \E t \in pool : hSock' = [hSock EXCEPT ![s] = hSock[t]]
                   /\ UNCHANGED sockObjs
                   /\ HandlerTo(s, "event")
              ELSE /\ sockObjs' = Append(sockObjs,
                                     NewSocket(IF ok THEN "connected" ELSE "open"))
                   /\ hSock' = [hSock EXCEPT ![s] = Len(sockObjs) + 1]
                   /\ HandlerTo(s, IF ok THEN "event" ELSE "finally")
    /\ UNCHANGED <<hT1, hT2, hRequest, hConn, hEvent, hVm, eventObjs, serving,
                   sessionFrame>>

\* vnc_socket = socket.socket(...); vnc_socket.connect((host, port)): a new
\* socket, connected to the display of the domain unless connect raises
BackendOpened(s) ==
    /\ At(s, "connect")
    /\ \E ok \in BOOLEAN :
          /\ sockObjs' = Append(sockObjs, NewSocket(IF ok THEN "connected" ELSE "open"))
          /\ HandlerTo(s, IF ok THEN "event" ELSE "finally")
    /\ hSock' = [hSock EXCEPT ![s] = Len(sockObjs) + 1]
    /\ UNCHANGED <<hT1, hT2, hRequest, hConn, hEvent, hVm, eventObjs, serving,
                   sessionFrame>>

\* ws_socket = self.connection; stop_event = threading.Event()
EventCreated(s) ==
    /\ At(s, "event")
    /\ eventObjs' = Append(eventObjs, FALSE)
    /\ hEvent' = [hEvent EXCEPT ![s] = Len(eventObjs) + 1]
    /\ HandlerTo(s, "start")
    /\ UNCHANGED <<hT1, hT2, hRequest, hConn, hSock, hVm, sockObjs, serving,
                   sessionFrame>>

\* t1.start(); t2.start()
PumpsStarted(s) ==
    /\ At(s, "start")
    /\ hT1' = [hT1 EXCEPT ![s] = "running"]
    /\ hT2' = [hT2 EXCEPT ![s] = "running"]
    /\ HandlerTo(s, "wait")
    /\ UNCHANGED <<hRequest, hConn, hSock, hEvent, hVm, sockObjs, eventObjs,
                   serving, sessionFrame>>

\* stop_event.wait() returns
Woken(s) ==
    /\ At(s, "wait")
    /\ eventObjs[hEvent[s]]
    /\ HandlerTo(s, "finally")
    /\ UNCHANGED <<hT1, hT2, hRequest, hConn, hSock, hEvent, hVm,
                   sockObjs, eventObjs, serving, sessionFrame>>

\* finally: if vnc_socket: vnc_socket.close(); self.connection = None
TornDown(s) ==
    /\ At(s, "finally")
    /\ sockObjs' = IF hSock[s] # 0
                   THEN [sockObjs EXCEPT ![hSock[s]].state = "closed"]
                   ELSE sockObjs
    /\ hConn' = [hConn EXCEPT ![s] = 0]
    /\ HandlerTo(s, "returned")
    /\ UNCHANGED <<hT1, hT2, hRequest, hSock, hEvent, hVm, eventObjs, serving,
                   sessionFrame>>

\* the request thread closes the socket of its request and ends
Released(s) ==
    /\ At(s, "returned")
    /\ sockObjs' = [sockObjs EXCEPT ![hRequest[s]].state = "closed"]
    /\ HandlerTo(s, "closed")
    /\ UNCHANGED <<hT1, hT2, hRequest, hConn, hSock, hEvent, hVm, eventObjs,
                   serving, sessionFrame>>

\* stop_event.set() by a thread of request s
SetStop(s) == eventObjs' = [eventObjs EXCEPT ![hEvent[s]] = TRUE]

\* sock.sendall(...) of one message, on a socket this process has not closed
Written(sock) ==
    /\ sockObjs[sock].state = "connected"
    /\ sockObjs[sock].written < MaxFrames
    /\ sockObjs' = [sockObjs EXCEPT ![sock].written = @ + 1]

\* proxy_ws_to_vnc, one turn of the loop: stop_event is not set, a frame is
\* read from ws_socket and vnc_socket.sendall(payload)
WsToVncForward(s) ==
    /\ serving /\ hT1[s] = "running"
    /\ ~eventObjs[hEvent[s]]
    /\ Written(hSock[s])
    /\ actor' = s
    /\ UNCHANGED <<hPc, hT1, hT2, hRequest, hConn, hSock, hEvent, hVm,
                   eventObjs, serving, sessionFrame>>

\* proxy_ws_to_vnc: the loop ends (stop_event is set, a short header, a close
\* frame or an OSError), then stop_event.set()
WsToVncBreak(s) ==
    /\ serving /\ hT1[s] = "running"
    /\ hT1' = [hT1 EXCEPT ![s] = "ended"]
    /\ SetStop(s)
    /\ actor' = s
    /\ UNCHANGED <<hPc, hT2, hRequest, hConn, hSock, hEvent, hVm,
                   sockObjs, serving, sessionFrame>>

\* proxy_ws_to_vnc: struct.error or IndexError, which the except clause does
\* not name: the thread ends before stop_event.set()
WsToVncDies(s) ==
    /\ serving /\ hT1[s] = "running"
    /\ hT1' = [hT1 EXCEPT ![s] = "ended"]
    /\ actor' = s
    /\ UNCHANGED <<hPc, hT2, hRequest, hConn, hSock, hEvent, hVm,
                   sockObjs, eventObjs, serving, sessionFrame>>

\* proxy_vnc_to_ws, one turn of the loop: stop_event is not set,
\* data = vnc_socket.recv(8192); ws_socket.sendall(header + data)
VncToWsForward(s) ==
    /\ serving /\ hT2[s] = "running"
    /\ ~eventObjs[hEvent[s]]
    /\ sockObjs[hSock[s]].state = "connected"
    /\ Written(hRequest[s])
    /\ actor' = s
    /\ UNCHANGED <<hPc, hT1, hT2, hRequest, hConn, hSock, hEvent, hVm,
                   eventObjs, serving, sessionFrame>>

\* proxy_vnc_to_ws: the loop ends (stop_event is set, end of stream or an
\* OSError), then stop_event.set()
VncToWsBreak(s) ==
    /\ serving /\ hT2[s] = "running"
    /\ hT2' = [hT2 EXCEPT ![s] = "ended"]
    /\ SetStop(s)
    /\ actor' = s
    /\ UNCHANGED <<hPc, hT1, hRequest, hConn, hSock, hEvent, hVm,
                   sockObjs, serving, sessionFrame>>

\* except KeyboardInterrupt: srv.server_close(); the process ends
Interrupted ==
    /\ serving
    /\ serving' = FALSE
    /\ actor' = 0
    /\ UNCHANGED <<hPc, hT1, hT2, hRequest, hConn, hSock, hEvent, hVm,
                   sockObjs, eventObjs, sessionFrame>>

HandlerStep(s) ==
    \/ Accepted(s)
    \/ Upgraded(s)
    \/ BackendOpened(s)
    \/ EventCreated(s)
    \/ PumpsStarted(s)
    \/ Woken(s)
    \/ TornDown(s)
    \/ Released(s)

PumpStep(s) ==
    \/ WsToVncForward(s)
    \/ WsToVncBreak(s)
    \/ WsToVncDies(s)
    \/ VncToWsForward(s)
    \/ VncToWsBreak(s)

SessionsNext ==
    \/ \E s \in Viewers : HandlerStep(s)
    \/ \E s \in Viewers : PumpStep(s)
    \/ Interrupted

SessionsSpec == SessionsInit /\ [][SessionsNext]_vars

\* ============================================================== the claims
\* ------------------------------------------------ vocabulary of the claims
IsPrefix(s, t) == Len(s) <= Len(t) /\ SubSeq(t, 1, Len(s)) = s

EndsWith(s, t) == Len(t) <= Len(s) /\ SubSeq(s, Len(s) - Len(t) + 1, Len(s)) = t

\* a frame the relay may forward: a masked Text or Binary frame
IsDataFrame(f) == f.masked /\ f.opcode \in {1, 2}

RECURSIVE ForwardedPayloads(_)
\* the concatenation, in order, of the payloads of the data frames in fs
ForwardedPayloads(fs) ==
    IF fs = << >> THEN << >>
    ELSE (IF IsDataFrame(Head(fs)) THEN Head(fs).payload ELSE << >>)
         \o ForwardedPayloads(Tail(fs))

\* RFC 6455 server frame: FIN=1, Binary, unmasked (here: payloads under 126)
BinaryFrame(d) == <<130, Len(d)>> \o d

RECURSIVE BinaryFrames(_)
\* one binary frame per read, in read order
BinaryFrames(rs) ==
    IF rs = << >> THEN << >> ELSE BinaryFrame(Head(rs)) \o BinaryFrames(Tail(rs))

AllButLast(rs) == SubSeq(rs, 1, Len(rs) - 1)

\* Close frame with status code 1000
Close1000 == <<136, 2, 3, 232>>

\* no pump is running
PumpsExited == pc1 \in {"idle", "done", "dead"} /\ pc2 \in {"idle", "done"}

\* the session is over: the handler has returned and the server has closed
\* the connection
SessionClosed == pcM = "closed"

\* proxy_ws_to_vnc has nothing to do: it has ended, or it is blocked in a
\* recv with nothing left to read
T1AtRest ==
    \/ pc1 \in {"done", "dead"}
    \/ T1Blocked /\ wsIn = << >> /\ ~(pc1 = "payload" /\ l1.payload_len = 0)

\* C1: while both peers stay connected and the browser sends only masked
\* Text/Binary frames, once the pump has read all it can, the backend has
\* received exactly the frames' payloads in order, however recv split them.
C1_ForwardedExactlyOnce ==
    ( /\ cliState = "open"
      /\ vncState = "open"
      /\ \A i \in 1..Len(cliSent) : IsDataFrame(cliSent[i])
      /\ T1AtRest )
    => vncOut = ForwardedPayloads(cliSent)

\* C2: what has been written to the backend is always a prefix of the
\* payloads of the masked data frames the browser sent, in order.
C2_BackendGetsOnlyPayloads == IsPrefix(vncOut, ForwardedPayloads(cliSent))

\* C3 as stated: whenever the pump is not in the middle of a send, every
\* backend read has been delivered to the client as one complete frame.
C3_EveryReadDelivered == pc2 # "send" => wsOut = BinaryFrames(reads)

\* C3 as amended: the client is sent one binary frame per backend read, in
\* read order; only the frame of the last read may be missing or cut short,
\* and only when its write failed, after which nothing more is sent.
C3_DeliveredUntilWriteFails ==
    /\ IsPrefix(wsOut, BinaryFrames(reads))
    /\ reads # << >> => IsPrefix(BinaryFrames(AllButLast(reads)), wsOut)
    /\ pc2 \in {"top", "recv"} => wsOut = BinaryFrames(reads)
    /\ pc2 = "send" => reads # << >> /\ data = reads[Len(reads)]
                        /\ wsOut = BinaryFrames(AllButLast(reads))

\* two backend reads have been delivered as two frames, in order
C3_Witness ==
    /\ Len(reads) = 2
    /\ wsOut = BinaryFrame(reads[1]) \o BinaryFrame(reads[2])

\* C4: a relaying session one of whose peers has disconnected or errored
\* eventually is closed with both pumps exited.
C4_NoStuckSession ==
    (pcM = "wait" /\ (cliState # "open" \/ vncState # "open"))
        ~> (SessionClosed /\ PumpsExited)

\* C5: once stop_event is set, both pumps exit.
C5_PumpsObserveStop == stop_event ~> PumpsExited

\* C6: when the backend reaches EOF in a session whose browser is connected
\* and has sent nothing, the last thing written to the client before its
\* connection is closed is a Close frame with code 1000.
C6_CloseFrameOnBackendEof ==
    (cliSent = << >> /\ cliState = "open" /\ vncState = "eof" /\ wsCloses > 0)
    => EndsWith(wsOut, Close1000)

\* C7: when the browser has disconnected or sent a Close frame, the backend
\* socket eventually is closed.
C7_ClientGoneClosesBackend ==
    (pc1 # "idle"
     /\ (cliState # "open" \/ \E i \in 1..Len(cliSent) : cliSent[i].opcode = 8))
        ~> (vncCloses > 0)

\* C8: each of the two transports is closed at most once.
C8_ClosedAtMostOnce == vncCloses <= 1 /\ wsCloses <= 1

\* both peers failed, both pumps saw it, and both transports were closed
C8_Witness ==
    /\ cliState # "open" /\ vncState # "open"
    /\ pc1 = "done" /\ pc2 = "done"
    /\ vncCloses = 1 /\ wsCloses = 1

\* C9: a transport is closed only when no pump is running.
C9_ClosedAfterPumpsExit == (vncCloses > 0 \/ wsCloses > 0) => PumpsExited

\* C10: when the browser's first frame has MASK=0, nothing is ever written
\* to the backend and the pump does not go on to read another frame.
C10_UnmaskedRejected ==
    (cliSent # << >> /\ ~cliSent[1].masked)
    => vncOut = << >> /\ ~(wsIn = << >> /\ pc1 \in {"top", "hdr"})

\* ------------------------------------------------- frames sent to the client
RECURSIVE FramesWithOpcode(_, _)
\* how many of the frames in the bytes sent to the client have opcode op
\* (server frames are unmasked; here their payloads are under 126 bytes)
FramesWithOpcode(bytes, op) ==
    IF Len(bytes) < 2 THEN 0
    ELSE (IF bytes[1] % 16 = op THEN 1 ELSE 0)
         + FramesWithOpcode(Drop(bytes, 2 + (bytes[2] % 128)), op)

\* Pong frame with payload p
PongFrame(p) == <<138, Len(p)>> \o p

\* Close frames with status codes 1002 and 1011
Close1002 == <<136, 2, 3, 234>>

Close1011 == <<136, 2, 3, 243>>

\* opcodes RFC 6455 reserves
ReservedOpcodes == (3..7) \cup (11..15)

\* x occurs in the sequence s
InSeq(x, s) == \E i \in 1..Len(s) : s[i] = x

\* the pump has read the browser's frame to its end and is back at the top
\* of its loop
T1ReadFrame == wsIn = << >> /\ pc1 \in {"top", "hdr"}

\* C11: when the browser's first frame is a Ping or a Pong, nothing is ever
\* written to the backend; and once a Ping with payload P has been read to
\* its end, with both peers connected, exactly one Pong frame has been sent
\* to the client and it carries P.
C11_ControlFramesIsolated ==
    (cliSent # << >> /\ cliSent[1].opcode \in {9, 10})
    => /\ vncOut = << >>
       /\ FramesWithOpcode(wsOut, 10) <= 1
       /\ (cliSent[1].opcode = 9 /\ T1ReadFrame
           /\ cliState = "open" /\ vncState = "open" /\ vncChunks = 0)
          => wsOut = PongFrame(cliSent[1].payload)

\* C12: when the browser's first frame is a Close frame and both peers are
\* connected, the cancellation signal is set only after a Close frame has
\* been sent to the client, no more than one Close frame is ever sent, and
\* nothing is written to the backend.
C12_CloseEchoedThenCancel ==
    (cliSent # << >> /\ cliSent[1].opcode = 8
     /\ cliState = "open" /\ vncState = "open")
    => /\ FramesWithOpcode(wsOut, 8) <= 1
       /\ stop_event => FramesWithOpcode(wsOut, 8) = 1
       /\ vncOut = << >>

\* C13: when the browser's first frame has a reserved opcode, nothing is
\* ever written to the backend, the pump does not go on to read another
\* frame, and once the frame's header has been read, with the browser still
\* connected, the cancellation signal is set and the last thing sent to the
\* client is a Close frame with code 1002.
C13_ReservedOpcodeRejected ==
    (cliSent # << >> /\ cliSent[1].opcode \in ReservedOpcodes)
    => /\ vncOut = << >>
       /\ ~T1ReadFrame
       /\ (cliState = "open" /\ vncState = "open" /\ l1.opcode \in ReservedOpcodes)
          => stop_event /\ EndsWith(wsOut, Close1002)

\* C14: when the browser has sent one masked Text/Binary frame and both
\* peers stay connected, then however recv splits the frame's bytes the pump
\* keeps waiting for the rest of the frame (it neither ends nor fails), and
\* what it writes to the backend is nothing until the frame is complete and
\* the frame's payload, once, afterwards.
C14_PartialReadRobust ==
    (Len(cliSent) = 1 /\ IsDataFrame(cliSent[1])
     /\ cliState = "open" /\ vncState = "open")
    => /\ pc1 \notin {"done", "dead"}
       /\ vncOut \in {<< >>, cliSent[1].payload}
       /\ vncOut # << >> => wsIn = << >>

\* C15: for a request with the upgrade headers whose Sec-WebSocket-Key is
\* missing or empty, no 101 is written and no connection to the backend is
\* opened, and (the endpoint having been found) by the time the connection
\* is closed a 400 has been written.
C15_MissingKeyIs400 ==
    (reqUpgrade /\ reqKey \in {"None", ""})
    => /\ ~InSeq(101, http)
       /\ connects = 0
       /\ (lookup = "ok" /\ SessionClosed) => InSeq(400, http)

\* C16: for a request without the upgrade headers, no 101 is written, no
\* connection to the backend is opened and no pump is started, and by the
\* time the connection is closed a 400 has been written.
C16_NotAnUpgradeIs400 ==
    ~reqUpgrade
    => /\ ~InSeq(101, http)
       /\ connects = 0
       /\ pc1 = "idle" /\ pc2 = "idle"
       /\ SessionClosed => InSeq(400, http)

\* the lookup found no usable endpoint
TargetUnavailable == lookup \in {"notfound", "inactive", "novnc", "port-1"}

\* C17: when the lookup for a well-formed upgrade request finds no usable
\* endpoint, no connection to the backend is opened, and by the time the
\* connection is closed a 400 or a 404 has been written.
C17_NoEndpointIs4xx ==
    (reqUpgrade /\ reqKey = "key" /\ TargetUnavailable)
    => /\ connects = 0
       /\ SessionClosed => (InSeq(400, http) \/ InSeq(404, http))

\* C18: a 101 is written only after a lookup that found the domain active
\* with a VNC graphics port other than -1.
C18_101OnlyAfterLookup == InSeq(101, http) => lookup = "ok"

\* the 101 has just been written, after a lookup that found the endpoint
C18_Witness == http = <<101>> /\ lookup = "ok" /\ pcM = "connect"

\* C19: when the connect to the backend has failed after the 101, the last
\* thing written to the client before its connection is closed is a Close
\* frame with code 1011.
C19_Close1011OnConnectFailure ==
    (vnc_socket = "created" /\ InSeq(101, http) /\ wsCloses > 0)
    => EndsWith(wsOut, Close1011)

\* C20: no more than one connection to the backend is opened in a session.
C20_OneBackendConnection == connects <= 1

\* the backend has disconnected and the session was closed without a second
\* connection
C20_Witness ==
    /\ connects = 1 /\ vnc_socket = "connected"
    /\ vncState # "open"
    /\ SessionClosed

\* the session's state as the handler's position shows it: Open from the
\* start of the pumps until the stop event is set, Closed once the server
\* has closed the client connection
SessionState ==
    IF pcM = "closed" THEN "Closed"
    ELSE IF pc1 = "idle" THEN "Handshaking"
    ELSE IF pcM = "wait" /\ ~stop_event THEN "Open"
    ELSE "Closing"

\* C21: Closed is terminal, no pump of a Closed session is still running;
\* and a session whose connect to the backend failed never has a pump
\* started.
C21_ClosedIsTerminal ==
    /\ SessionState = "Closed" => PumpsExited
    /\ vnc_socket = "created" => pc1 = "idle" /\ pc2 = "idle"

\* C26: whenever a pump has stopped, for whatever reason, the stop event is
\* set.
C26_StoppedPumpSetsStop ==
    (pc1 \in {"done", "dead"} \/ pc2 = "done") => stop_event

\* C27: once the handler has returned and the request is finished, the
\* backend socket, if one was created, and the client connection have each
\* been closed.
C27_SocketsReleased ==
    SessionClosed
    => /\ wsCloses = 1
       /\ vnc_socket # "None" => vncCloses = 1

\* the connect failed after the socket was created: the handler returned,
\* the socket was closed and so was the client connection
C27_Witness ==
    /\ SessionClosed
    /\ vnc_socket = "created" /\ vncCloses = 1
    /\ wsCloses = 1 /\ connection = "None"

\* ------------------------------------------------ claims on the helpers
\* an encoder has produced cFrame from cPayload
Encoded == cStage \in {"encoded_fixed", "encoded_frame", "encoded_inline"}

\* C23: a frame built for backend data starts with 0x82 (FIN=1, Binary), has
\* MASK=0, carries the length in one byte below 126, as 126 and two
\* big-endian bytes below 65536 and as 127 and eight big-endian bytes from
\* there on, and ends with the payload unchanged; the inline encoder and the
\* two helpers build the same bytes.
C23_ServerFrameFormat ==
    Encoded =>
        LET n == Len(cPayload) IN
        /\ cFrame[1] = 130
        /\ cFrame[2] < 128
        /\ n < 126 => cFrame[2] = n /\ Drop(cFrame, 2) = cPayload
        /\ (126 <= n /\ n < 65536)
           => /\ cFrame[2] = 126
              /\ 256 * cFrame[3] + cFrame[4] = n
              /\ Drop(cFrame, 4) = cPayload
        /\ n >= 65536
           => /\ cFrame[2] = 127
              /\ \A i \in 3..6 : cFrame[i] = 0
              /\ ((cFrame[7] * 256 + cFrame[8]) * 256 + cFrame[9]) * 256 + cFrame[10] = n
              /\ Drop(cFrame, 10) = cPayload
        /\ cFrame = EncodeInline(cPayload)
        /\ cFrame = EncodeFixed(cPayload)
        /\ cFrame = EncodeFrame(cPayload)

\* the inline encoder has framed a payload of 65536 bytes
C23_Witness ==
    /\ cStage = "encoded_inline"
    /\ Len(cPayload) = 65536
    /\ Len(cFrame) = 65546

\* C24: decoding what the encoder built gives a frame, not None, and its
\* payload is the payload that was encoded.
C24_RoundTrip ==
    cStage = "decoded" => cResult.frame /\ cResult.payload = cPayload

\* the empty payload has gone through the encoder and the decoder
C24_Witness ==
    /\ cStage = "decoded"
    /\ cPayload = << >>
    /\ cFrame = <<130, 0>>
    /\ cResult = Some(<< >>)

\* C25: what the browser masked with a key, the relay's unmasking with the
\* same key gives back, in proxy_ws_to_vnc and in the decoder alike.
C25_UnmaskInverts ==
    /\ cStage = "unmasked" => cResult = Some(cPayload)
    /\ cStage = "decoded_client" => cResult = Some(cPayload)

\* a payload that the masking changed has been unmasked
C25_Witness ==
    /\ cStage = "unmasked"
    /\ Len(cPayload) = 126
    /\ cFrame # cPayload
    /\ cResult = Some(cPayload)

\* ------------------------------------------------- claims on check_auth
\* request r passes check_auth in this step: do_GET goes on to route, which
\* for /vnc_ws/ writes the 101 and connects to the backend
Accepting(r) == aPc[r] # "accepted" /\ aPc'[r] = "accepted"

HoldingLock == {"pct10", "thr_start", "converting", "unlock"}

\* C29: of the imports to one destination no two are writing the
\* destination file at the same time, and a lock file that exists belongs
\* to an import that is between taking the lock and removing it.
C29_LockExcludes ==
    /\ Cardinality(writers) <= 1
    /\ lock_file # 0 => wPc[lock_file] \in HoldingLock

\* C30: an entry of PROGRESS has pct = 100 exactly when its status is done,
\* its status is one of starting, running, done and error, and no worker is
\* still running once its entry has been removed.
C30_ProgressEntries ==
    /\ \A pid \in DOMAIN PROGRESS :
          /\ PROGRESS[pid].status \in {"starting", "running", "done", "error"}
          /\ PROGRESS[pid].pct = 100 <=> PROGRESS[pid].status = "done"
    /\ \A w \in Imports : clPc[w] = "done" => wPc[w] = "exited"

\* ------------------------------------------------- claims on the sessions
\* what request s can see of its own session
SocketOf(id) == IF id = 0 THEN NewSocket("none") ELSE sockObjs[id]

SessionView(s) ==
    <<hPc[s], hT1[s], hT2[s], hRequest[s], hConn[s], hSock[s], hEvent[s], hVm[s],
      SocketOf(hRequest[s]), SocketOf(hSock[s]),
      IF hEvent[s] = 0 THEN FALSE ELSE eventObjs[hEvent[s]]>>

\* C22: sessions are independent.  Two requests never hold the same backend
\* socket or the same stop event, also when both view the same domain; a step
\* changes the position, threads, sockets, written bytes or stop event of a
\* session only if a thread of that session made it; and no step of a session
\* ends serve_forever.
C22_SessionsIndependent ==
    /\ [](\A s, t \in Viewers :
            s # t =>
               /\ hSock[s] # 0 => hSock[s] \notin {hSock[t], hRequest[t], hRequest[s]}
               /\ hRequest[s] # 0 => hRequest[s] # hRequest[t]
               /\ hEvent[s] # 0 => hEvent[s] # hEvent[t])
    /\ [][/\ \A s \in Viewers : SessionView(s)' # SessionView(s) => actor' = s
          /\ serving' # serving => actor' = 0]_vars

\* both requests view the same domain; the first has been torn down after an
\* error of its pump and the second is still relaying on its own connection
C22_Witness ==
    /\ hVm[1] = hVm[2]
    /\ hPc[1] = "closed" /\ hT1[1] = "ended" /\ hSock[1] # 0
    /\ sockObjs[hSock[1]].state = "closed"
    /\ hPc[2] = "wait" /\ hSock[2] # 0
    /\ sockObjs[hSock[2]].state = "connected"
    /\ sockObjs[hSock[2]].written > 0
    /\ ~eventObjs[hEvent[2]]
    /\ serving

====
